---- MODULE Spec2Model ----
(***************************************************************************)
(* German Verb Trainer: the local attempt ledger (StorageService), the    *)
(* manual sync reconciler (SyncService) and the remote attempt store it    *)
(* talks to through SupabaseService.                                       *)
(*                                                                         *)
(* The browser runs every handler to completion on one thread, so each     *)
(* action below is one handler: a user-triggered call, the remote store    *)
(* serving a request, or the callback that handles a response.  Remote     *)
(* calls are asynchronous: a request sits in uploads / downloads between   *)
(* the call and its response, and other handlers run in between.           *)
(***************************************************************************)
EXTENDS Integers, Sequences, FiniteSets, Bags, TLC

\* ---------------------------------------------------------------- bounds
MaxAttempts == 2      \* attempts created on this client
MaxForeign == 1       \* attempts other clients put in the remote store
MaxTime == 1          \* the clock runs 0..MaxTime
MaxRequests == 2      \* remote calls this client issues in one behaviour

\* ------------------------------------------------------- program constants
NoTime == -1          \* synced_at: null / no last-sync entry
KeyBase == 100        \* client_generated_id is a second uuid, never the id

\* The session is anonymous: user_id null, written "anon"
Users == {"anon"}

LocalIds == 1..MaxAttempts
ForeignIds == (MaxAttempts + 1)..(MaxAttempts + MaxForeign)
AllIds == LocalIds \cup ForeignIds

VARIABLES
    results,     \* localStorage['german-verb-trainer-results']: stored array
    lastSync,    \* localStorage['german-verb-trainer-last-sync'] or NoTime
    remote,      \* rows of the remote table test_results
    uploads,     \* upload requests in flight (upsert issued, not yet handled)
    downloads,   \* download requests in flight
    now,         \* wall clock (new Date())
    nextId,      \* next attempt this client creates
    nextForeign, \* next attempt another client uploads
    nextReq,     \* next remote call of this client
    out,         \* what the most recent handler returned / emitted
    everSynced,  \* history: ids that have been stored with synced = true
    verbsArray,    \* CacheService.verbsArray
    verbsMap,      \* CacheService.verbsMap: infinitive -> verb
    isInitialized, \* CacheService.isInitialized
    inits,         \* initializeCache() calls waiting for an answer
    nextInit,      \* next initializeCache() call
    epoch,         \* history: clearCache() calls so far
    writer,        \* history: the load that last filled the cache
    config,        \* the TestConfig handed to QuizService
    validation,    \* what validateConfiguration(config) returned
    questions,     \* what generateQuestions(config) returned
    userAnswers,   \* QuizContainerComponent.userAnswers: question id -> text
    quizResult,    \* what scoreQuiz returned on submit
    quizState,     \* VocabQuizTestComponent.quizState and showFeedback
    answer,        \* a text handed to normalizeAnswer
    passes,        \* the results of normalizing it, then the result, ...
    picked,        \* what the last getRandomVerbs call was given and returned
    checked,       \* two texts handed to checkAnswer, and what it returned
    guard          \* the dataLoadedGuard run of the navigation under way

syncVars == <<results, lastSync, remote, uploads, downloads, now, nextId,
              nextForeign, nextReq, out, everSynced>>

cacheVars == <<verbsArray, verbsMap, isInitialized, inits, nextInit, epoch,
               writer>>

quizVars == <<config, validation, questions>>

\* everything outside the ledger and the sync reconciler
scoreVars == <<userAnswers, quizResult, quizState, answer, passes>>

\* calls made from outside the quiz
callVars == <<picked, checked, guard>>

appVars == <<cacheVars, quizVars, scoreVars, callVars>>

vars == <<syncVars, appVars>>

\* ------------------------------------------------------------ helpers
KeyOf(id) == id + KeyBase

Ids(s) == {s[i].id : i \in 1..Len(s)}

Keys(s) == {s[i].client_generated_id : i \in 1..Len(s)}

SyncedIds(s) == {s[i].id : i \in {j \in 1..Len(s) : s[j].synced}}

\* Array.prototype.findIndex((r) => r.id === id); 0 stands for -1
FindIndex(s, id) ==
    IF \E i \in 1..Len(s) : s[i].id = id
    THEN CHOOSE i \in 1..Len(s) :
            /\ s[i].id = id
            /\ \A j \in 1..(i - 1) : s[j].id # id
    ELSE 0

\* Array.prototype.sort is stable: r goes behind every element that does
\* not sort after it (dateB - dateA <= 0)
RECURSIVE InsertByDate(_, _)
InsertByDate(sorted, r) ==
    IF sorted = <<>> THEN <<r>>
    ELSE IF Head(sorted).test_date >= r.test_date
         THEN <<Head(sorted)>> \o InsertByDate(Tail(sorted), r)
         ELSE <<r>> \o sorted

RECURSIVE SortByDateDesc(_)
SortByDateDesc(s) ==
    IF s = <<>> THEN <<>>
    ELSE InsertByDate(SortByDateDesc(SubSeq(s, 1, Len(s) - 1)), s[Len(s)])

\* ------------------------------------------------------- StorageService
\* getTestResults(): the stored array sorted by test_date, newest first
GetTestResults(store) == SortByDateDesc(store)

\* saveTestResult(result) when setItem accepts the write
SaveTestResult(store, rec) == Append(GetTestResults(store), rec)

\* an update that stores a record for an id it does not find
UpdateTestResult_CreatesRecord(store, id, t) ==
    LET rs == SortByDateDesc(store)
        index == FindIndex(rs, id)
    IN  IF index = 0
        THEN Append(rs, [id |-> id, synced |-> TRUE, synced_at |-> t])
        ELSE [rs EXCEPT ![index] = [@ EXCEPT !.synced = TRUE, !.synced_at = t]]

\* updateTestResult(id, {synced: true, synced_at}) when setItem accepts the
\* write; an unknown id is a warning and no write
UpdateTestResult(store, id, t) ==
    LET rs == GetTestResults(store)
        index == FindIndex(rs, id)
    IN  IF index = 0 THEN store
        ELSE [rs EXCEPT ![index] = [@ EXCEPT !.synced = TRUE, !.synced_at = t]]

\* deleteTestResult(id) when setItem accepts the write; an unknown id is a
\* warning and no write
DeleteTestResultIn(store, id) ==
    LET rs == GetTestResults(store)
        filtered == SelectSeq(rs, LAMBDA r : r.id # id)
    IN  IF Len(filtered) = Len(rs) THEN store ELSE filtered

\* ---------------------------------------------------------- SyncService
GetUnsyncedResults_NoFilter(store) == GetTestResults(store)

GetUnsyncedResults_Inverted(store) ==
    SelectSeq(GetTestResults(store), LAMBDA r : r.synced)

\* getUnsyncedResults()
GetUnsyncedResults(store) ==
    SelectSeq(GetTestResults(store), LAMBDA r : ~r.synced)

\* ------------------------------------------------------ SupabaseService
\* uploadResults: dataToUpload, one row per result (local-only fields
\* synced / synced_at dropped, synced_from_client stamped at call time)
DataToUpload(rs, t) ==
    [i \in 1..Len(rs) |->
        [id |-> rs[i].id,
         user_id |-> rs[i].user_id,
         test_date |-> rs[i].test_date,
         synced_from_client |-> t,
         client_generated_id |-> rs[i].client_generated_id]]

\* uploadResults(results): the requests it puts on the wire; an empty batch
\* completes at once without a request
UploadResults(rs, t) ==
    IF Len(rs) = 0 THEN EmptyBag
    ELSE SetToBag({[rows |-> DataToUpload(rs, t), stage |-> "sent"]})

\* uploadResults' map: a response carrying an error is thrown, any other
\* completes the observable
UploadConfirmed_IgnoreError(r) == TRUE

UploadConfirmed(r) == r.stage = "ok"

\* a plain insert
UpsertRow_Insert(tbl, row) == Append(tbl, row)

\* one row of upsert(..., {onConflict: 'client_generated_id',
\* ignoreDuplicates: false}): update the row holding the key, else insert
UpsertRow(tbl, row) ==
    IF \E i \in 1..Len(tbl) :
            tbl[i].client_generated_id = row.client_generated_id
    THEN [i \in 1..Len(tbl) |->
            IF tbl[i].client_generated_id = row.client_generated_id
            THEN row ELSE tbl[i]]
    ELSE Append(tbl, row)

RECURSIVE Upsert(_, _)
Upsert(tbl, rows) ==
    IF rows = <<>> THEN tbl
    ELSE Upsert(UpsertRow(tbl, Head(rows)), Tail(rows))

\* downloadHistory(userId): select * order by test_date desc, filtered by
\* user_id (null when no userId is given), mapped to TestResult
SelectHistory(tbl, scope) ==
    LET hit == SortByDateDesc(SelectSeq(tbl, LAMBDA r : r.user_id = scope))
    IN  [i \in 1..Len(hit) |->
            [id |-> hit[i].id,
             user_id |-> hit[i].user_id,
             test_date |-> hit[i].test_date,
             client_generated_id |-> hit[i].client_generated_id,
             synced |-> TRUE,
             synced_at |-> hit[i].synced_from_client]]

\* ------------------------------------------- SyncService response handlers
\* a tap that marks whatever the ledger holds
MarkEach_WholeLedger(store, rows, i, failAt, t) ==
    [store |-> [k \in 1..Len(store) |->
                   [store[k] EXCEPT !.synced = TRUE, !.synced_at = t]],
     threw |-> FALSE]

\* uploadHistory's tap: unsyncedResults.forEach(updateTestResult).  The
\* failAt-th call is the one whose setItem throws (0: none does); a call
\* for an id no longer stored writes nothing and cannot throw.
RECURSIVE MarkEach(_, _, _, _, _)
MarkEach(store, rows, i, failAt, t) ==
    IF i > Len(rows) THEN [store |-> store, threw |-> FALSE]
    ELSE IF FindIndex(GetTestResults(store), rows[i].id) = 0
         THEN MarkEach(store, rows, i + 1, failAt, t)
         ELSE IF i = failAt THEN [store |-> store, threw |-> TRUE]
              ELSE MarkEach(UpdateTestResult(store, rows[i].id, t),
                            rows, i + 1, failAt, t)

\* a merge that saves every server result
RECURSIVE MergeEach_SaveAll(_, _, _, _, _)
MergeEach_SaveAll(store, rows, i, failAt, localKeys) ==
    IF i > Len(rows) THEN [store |-> store, threw |-> FALSE]
    ELSE IF i = failAt THEN [store |-> store, threw |-> TRUE]
         ELSE MergeEach_SaveAll(
                SaveTestResult(store, [rows[i] EXCEPT !.synced = TRUE]),
                rows, i + 1, failAt, localKeys)

\* downloadHistory's map: serverResults.forEach(save when the key is not in
\* localResultsMap).  localKeys is the map, built once before the loop.
RECURSIVE MergeEach(_, _, _, _, _)
MergeEach(store, rows, i, failAt, localKeys) ==
    IF i > Len(rows) THEN [store |-> store, threw |-> FALSE]
    ELSE IF rows[i].client_generated_id \in localKeys
         THEN MergeEach(store, rows, i + 1, failAt, localKeys)
         ELSE IF i = failAt THEN [store |-> store, threw |-> TRUE]
              ELSE MergeEach(
                     SaveTestResult(store, [rows[i] EXCEPT !.synced = TRUE]),
                     rows, i + 1, failAt, localKeys)

\* clearSyncedResults' loop: allResults.forEach(delete when synced)
RECURSIVE ClearEach(_, _, _, _)
ClearEach(store, all, i, failAt) ==
    IF i > Len(all) THEN [store |-> store, threw |-> FALSE]
    ELSE IF ~all[i].synced \/ FindIndex(GetTestResults(store), all[i].id) = 0
         THEN ClearEach(store, all, i + 1, failAt)
         ELSE IF i = failAt THEN [store |-> store, threw |-> TRUE]
              ELSE ClearEach(DeleteTestResultIn(store, all[i].id),
                             all, i + 1, failAt)

\* ------------------------------------------------------ the verb catalog
\* Strings whose content matters (conjugated forms, answers) are sequences
\* of one-character strings; "" is <<>>.
MaxVerbs == 2         \* verbs in a loaded list
MaxCount == 3         \* questionCount ranges over 0..MaxCount, and 101

MaxQuestionCount == 100   \* 'Question count cannot exceed 100'

Undefined == <<"undefined">>   \* the JavaScript value undefined

Includes(s, x) == \E i \in 1..Len(s) : s[i] = x

gehen ==
    [infinitive |-> "gehen", english_translation |-> "to go",
     verb_type |-> "strong", difficulty_level |-> 2,
     conjugations |->
         [praesens |-> [ich |-> <<"a">>, du |-> <<"a", "b">>],
          praeteritum |-> [ich |-> <<"b">>, du |-> <<"b", "a">>]]]

\* a second row with the infinitive "gehen"
gehenAgain ==
    [infinitive |-> "gehen", english_translation |-> "to walk",
     verb_type |-> "strong", difficulty_level |-> 2,
     conjugations |-> [praesens |-> [ich |-> <<"a">>, du |-> <<"b">>]]]

\* a sparse table: praesens/du is the empty string, praeteritum has no du
sehen ==
    [infinitive |-> "sehen", english_translation |-> "to see",
     verb_type |-> "strong", difficulty_level |-> 1,
     conjugations |->
         [praesens |-> [ich |-> <<"a", "b">>, du |-> <<>>],
          praeteritum |-> [ich |-> <<"b">>]]]

\* praeteritum/ich holds the placeholder "?", praeteritum has no du
machen ==
    [infinitive |-> "machen", english_translation |-> "to make",
     verb_type |-> "weak", difficulty_level |-> 1,
     conjugations |->
         [praesens |-> [ich |-> <<"b", "a">>, du |-> <<"b">>],
          praeteritum |-> [ich |-> <<"?">>]]]

VerbPool == {gehen, gehenAgain, sehen, machen}

Infinitives == {v.infinitive : v \in VerbPool}

\* lists of at most n verbs, each row of the pool at most once
VerbLists(n) ==
    {s \in UNION {[1..k -> VerbPool] : k \in 0..n} :
        \A i, j \in 1..Len(s) : s[i] = s[j] => i = j}

\* verbsMap after verbs.forEach(verb => verbsMap.set(verb.infinitive, verb))
\* on a cleared map: the last row of each infinitive stays
MapOf(verbs) ==
    [inf \in {verbs[i].infinitive : i \in 1..Len(verbs)} |->
        verbs[CHOOSE i \in 1..Len(verbs) :
                  /\ verbs[i].infinitive = inf
                  /\ \A j \in (i + 1)..Len(verbs) : verbs[j].infinitive # inf]]

EmptyMap == MapOf(<<>>)

MaxInits == 3         \* initializeCache() calls in one behaviour
MaxReloads == 2       \* clearCache() calls in one behaviour

NoWriter == [gen |-> -1, verbs |-> <<>>]

\* no load is under way and none has happened
LoadIdle ==
    /\ inits = {}
    /\ nextInit = 1
    /\ epoch = 0
    /\ writer = NoWriter

\* the lists the table verbs can return: infinitive is UNIQUE there
UniqueLists(n) ==
    {s \in VerbLists(n) :
        \A i, j \in 1..Len(s) : s[i].infinitive = s[j].infinitive => i = j}

\* the letters of the words searchVerbs looks through
Spelling(word) ==
    CASE word = "gehen" -> <<"g", "e", "h", "e", "n">>
      [] word = "sehen" -> <<"s", "e", "h", "e", "n">>
      [] word = "machen" -> <<"m", "a", "c", "h", "e", "n">>
      [] word = "to go" -> <<"t", "o", " ", "g", "o">>
      [] word = "to walk" -> <<"t", "o", " ", "w", "a", "l", "k">>
      [] word = "to see" -> <<"t", "o", " ", "s", "e", "e">>
      [] word = "to make" -> <<"t", "o", " ", "m", "a", "k", "e">>

\* String.prototype.includes
StringIncludes(s, part) ==
    \E i \in 0..(Len(s) - Len(part)) : SubSeq(s, i + 1, i + Len(part)) = part

\* CacheService.isCacheReady()
IsCacheReady == isInitialized

\* CacheService.getAllVerbs()
GetAllVerbs == IF ~isInitialized THEN <<>> ELSE verbsArray

\* CacheService.getVerbByInfinitive(infinitive)
GetVerbByInfinitive(infinitive) ==
    IF ~isInitialized THEN Undefined
    ELSE IF infinitive \in DOMAIN verbsMap THEN verbsMap[infinitive]
         ELSE Undefined

\* CacheService.filterVerbs(criteria): an absent or empty field filters nothing
FilterVerbs(criteria) ==
    IF ~isInitialized THEN <<>>
    ELSE LET byType(v) == Len(criteria.verbTypes) > 0
                            => Includes(criteria.verbTypes, v.verb_type)
             byLevel(v) == Len(criteria.difficultyLevels) > 0
                             => Includes(criteria.difficultyLevels,
                                         v.difficulty_level)
             byName(v) == Len(criteria.infinitives) > 0
                            => Includes(criteria.infinitives, v.infinitive)
         IN  SelectSeq(verbsArray,
                       LAMBDA v : byType(v) /\ byLevel(v) /\ byName(v))

\* a lookup that reads the first person whatever person is asked
GetConjugation_IgnorePerson(verb, tense, person) ==
    IF tense \notin DOMAIN verb.conjugations THEN Undefined
    ELSE IF person \notin DOMAIN verb.conjugations[tense] THEN Undefined
    ELSE IF verb.conjugations[tense][person] = <<>> THEN Undefined
    ELSE verb.conjugations[tense]["ich"]

\* VerbService.getConjugation(verb, tense, person)
GetConjugation(verb, tense, person) ==
    IF tense \notin DOMAIN verb.conjugations THEN Undefined
    ELSE IF person \notin DOMAIN verb.conjugations[tense] THEN Undefined
    ELSE IF verb.conjugations[tense][person] = <<>> THEN Undefined
    ELSE verb.conjugations[tense][person]

\* a check that looks at the tenses only
HasRequiredConjugations_TensesOnly(verb, tenses, persons) ==
    \A i \in 1..Len(tenses) : tenses[i] \in DOMAIN verb.conjugations

\* VerbService.hasRequiredConjugations(verb, tenses, persons)
HasRequiredConjugations(verb, tenses, persons) ==
    \A i \in 1..Len(tenses) :
        /\ tenses[i] \in DOMAIN verb.conjugations
        /\ \A j \in 1..Len(persons) :
               /\ persons[j] \in DOMAIN verb.conjugations[tenses[i]]
               /\ verb.conjugations[tenses[i]][persons[j]] # <<>>

\* the filters both QuizService methods build from the config
FiltersOf(cfg) ==
    [verbTypes |-> cfg.verbTypes,
     difficultyLevels |-> cfg.difficultyLevels,
     infinitives |-> cfg.specificVerbs]

\* VerbService.getVerbsWithConjugations(tenses, persons, filters)
GetVerbsWithConjugations(tenses, persons, filters) ==
    SelectSeq(FilterVerbs(filters),
              LAMBDA v : HasRequiredConjugations(v, tenses, persons))

\* ---------------------------------------------------- question generation
Min(a, b) == IF a < b THEN a ELSE b

\* the combinations generateQuestions collects, in loop order: verb by verb,
\* tense by tense, person by person, kept when getConjugation is truthy
AllCombinations(availableVerbs, tenses, persons) ==
    LET nT == Len(tenses)
        nP == Len(persons)
        n == Len(availableVerbs) * nT * nP
        combo(k) ==
            [verb |-> availableVerbs[((k - 1) \div (nT * nP)) + 1],
             tense |-> tenses[(((k - 1) \div nP) % nT) + 1],
             person |-> persons[((k - 1) % nP) + 1]]
    IN  SelectSeq([k \in 1..n |-> combo(k)],
                  LAMBDA c :
                      GetConjugation(c.verb, c.tense, c.person) # Undefined)

\* allCombinations of generateQuestions(cfg); the early return on an empty
\* availableVerbs leaves it empty
CombinationsOf(cfg) ==
    AllCombinations(GetVerbsWithConjugations(cfg.tenses, cfg.persons,
                                             FiltersOf(cfg)),
                    cfg.tenses, cfg.persons)

\* Math.min(config.questionCount, allCombinations.length)
ActualQuestionCount(cfg) == Min(cfg.questionCount, Len(CombinationsOf(cfg)))

\* what the Fisher-Yates shuffle followed by slice(0, k) can select out of
\* the positions S: any k distinct positions in any order
RECURSIVE ShuffledSlices(_, _)
ShuffledSlices(S, k) ==
    IF k = 0 THEN {<<>>}
    ELSE UNION {{<<x>> \o s : s \in ShuffledSlices(S \ {x}, k - 1)} : x \in S}

\* QuizService.generateQuestions(cfg), with pick the shuffle's outcome
GenerateQuestions(cfg, pick) ==
    LET allCombinations == CombinationsOf(cfg)
    IN  [k \in 1..Len(pick) |->
            LET c == allCombinations[pick[k]]
            IN  [id |-> k, verb |-> c.verb, tense |-> c.tense,
                 person |-> c.person,
                 correctAnswer |-> GetConjugation(c.verb, c.tense, c.person)]]

\* a validation that never looks at the catalog
ValidateConfiguration_SetsOnly(cfg) ==
    LET errors ==
            (IF Len(cfg.tenses) = 0
             THEN <<"At least one tense must be selected">> ELSE <<>>)
            \o (IF Len(cfg.verbTypes) = 0
                THEN <<"At least one verb type must be selected">> ELSE <<>>)
            \o (IF Len(cfg.persons) = 0
                THEN <<"At least one person must be selected">> ELSE <<>>)
            \o (IF cfg.questionCount < 1
                THEN <<"Question count must be at least 1">> ELSE <<>>)
            \o (IF cfg.questionCount > MaxQuestionCount
                THEN <<"Question count cannot exceed 100">> ELSE <<>>)
    IN  [valid |-> Len(errors) = 0, errors |-> errors]

\* QuizService.validateConfiguration(cfg)
ValidateConfiguration(cfg) ==
    LET availableVerbs ==
            GetVerbsWithConjugations(cfg.tenses, cfg.persons, FiltersOf(cfg))
        errors ==
            (IF Len(cfg.tenses) = 0
             THEN <<"At least one tense must be selected">> ELSE <<>>)
            \o (IF Len(cfg.verbTypes) = 0
                THEN <<"At least one verb type must be selected">> ELSE <<>>)
            \o (IF Len(cfg.persons) = 0
                THEN <<"At least one person must be selected">> ELSE <<>>)
            \o (IF cfg.questionCount < 1
                THEN <<"Question count must be at least 1">> ELSE <<>>)
            \o (IF cfg.questionCount > MaxQuestionCount
                THEN <<"Question count cannot exceed 100">> ELSE <<>>)
            \o (IF Len(availableVerbs) = 0
                THEN <<"No verbs available matching the selected criteria">>
                ELSE IF Len(availableVerbs) < cfg.questionCount
                THEN <<"Only n verbs available, but m questions requested">>
                ELSE <<>>)
    IN  [valid |-> Len(errors) = 0, errors |-> errors]

TenseLists ==
    {<<>>, <<"praesens">>, <<"praeteritum">>, <<"praesens", "praeteritum">>}

PersonLists == {<<>>, <<"ich">>, <<"du">>, <<"ich", "du">>}

VerbTypeLists == {<<>>, <<"strong">>, <<"weak">>, <<"strong", "weak">>}

\* the optional fields; <<>> also stands for an absent field
DifficultyLists == {<<>>, <<1>>}

SpecificLists == {<<>>, <<"gehen">>}

Counts == (0..MaxCount) \cup {MaxQuestionCount + 1}

Configs ==
    [tenses : TenseLists, verbTypes : VerbTypeLists, persons : PersonLists,
     questionCount : Counts, difficultyLevels : DifficultyLists,
     specificVerbs : SpecificLists]

\* DEFAULT_TEST_CONFIG, cut to the tenses, persons and levels of the model
DefaultConfig ==
    [tenses |-> <<"praesens">>, verbTypes |-> <<"strong", "weak">>,
     persons |-> <<"ich", "du">>, questionCount |-> MaxCount,
     difficultyLevels |-> <<1>>, specificVerbs |-> <<>>]

\* ---------------------------------------------------------------- scoring
MaxLen == 3           \* characters of a text handed to normalizeAnswer
MaxPasses == 2        \* times normalizeAnswer is applied in a row
MaxQuestions == 3     \* questions of a quiz that is scored
MaxFinishes == 2      \* finishQuiz() calls of one vocabulary quiz

SpaceChars == {" ", "\t"}                        \* \s, as far as typed

PunctuationChars == {".", ",", "!", "?", ";", ":"}

\* String.prototype.toLowerCase
ToLowerCase(s) ==
    [i \in 1..Len(s) |->
        CASE s[i] = "A" -> "a" [] s[i] = "B" -> "b" [] s[i] = "O" -> "o"
          [] OTHER -> s[i]]

RECURSIVE TrimStart(_)
TrimStart(s) ==
    IF s # <<>> /\ Head(s) \in SpaceChars THEN TrimStart(Tail(s)) ELSE s

RECURSIVE TrimEnd(_)
TrimEnd(s) ==
    IF s # <<>> /\ s[Len(s)] \in SpaceChars
    THEN TrimEnd(SubSeq(s, 1, Len(s) - 1))
    ELSE s

\* String.prototype.trim
Trim(s) == TrimEnd(TrimStart(s))

\* replace(/\s+/g, ' ')
RECURSIVE CollapseSpaces(_)
CollapseSpaces(s) ==
    IF s = <<>> THEN <<>>
    ELSE IF Head(s) \in SpaceChars
         THEN <<" ">> \o CollapseSpaces(TrimStart(s))
         ELSE <<Head(s)>> \o CollapseSpaces(Tail(s))

\* replace(/[.,!?;:]/g, '')
RemovePunctuation(s) == SelectSeq(s, LAMBDA c : c \notin PunctuationChars)

\* QuizService.normalizeAnswer(answer)
NormalizeAnswer(text) ==
    RemovePunctuation(CollapseSpaces(Trim(ToLowerCase(text))))

\* QuizService.validateAnswer(question, userAnswer)
ValidateAnswer(question, userAnswer) ==
    NormalizeAnswer(userAnswer) = NormalizeAnswer(question.correctAnswer)

\* CacheService.searchVerbs(query)
SearchVerbs(query) ==
    IF ~isInitialized THEN <<>>
    ELSE IF Trim(query) = <<>> THEN GetAllVerbs
    ELSE LET lowerQuery == Trim(ToLowerCase(query))
         IN  SelectSeq(verbsArray,
                 LAMBDA v :
                     \/ StringIncludes(ToLowerCase(Spelling(v.infinitive)),
                                       lowerQuery)
                     \/ StringIncludes(
                            ToLowerCase(Spelling(v.english_translation)),
                            lowerQuery))

\* replace(/^to\s+/g, ''): "to" and the white space after it, at the start
RemoveToPrefix(s) ==
    IF Len(s) >= 3 /\ s[1] = "t" /\ s[2] = "o" /\ s[3] \in SpaceChars
    THEN TrimStart(SubSeq(s, 3, Len(s)))
    ELSE s

\* a comparison that accepts equal texts only
CheckAnswer_ExactOnly(userAnswer, correctAnswer) ==
    Trim(ToLowerCase(userAnswer)) = Trim(ToLowerCase(correctAnswer))

\* VocabQuizTestComponent.checkAnswer(userAnswer, correctAnswer)
CheckAnswer(userAnswer, correctAnswer) ==
    LET cleanUser == Trim(ToLowerCase(userAnswer))
        cleanCorrect == Trim(ToLowerCase(correctAnswer))
        userWithoutTo == RemoveToPrefix(cleanUser)
        correctWithoutTo == RemoveToPrefix(cleanCorrect)
    IN  IF cleanUser = cleanCorrect THEN TRUE
        ELSE IF userWithoutTo = correctWithoutTo THEN TRUE
        ELSE IF <<"t", "o", " ">> \o userWithoutTo = correctWithoutTo THEN TRUE
        ELSE IF userWithoutTo = <<"t", "o", " ">> \o correctWithoutTo THEN TRUE
        ELSE \/ StringIncludes(correctWithoutTo, userWithoutTo)
             \/ StringIncludes(userWithoutTo, correctWithoutTo)

\* the criteria argument left out
NoCriteria == [given |-> FALSE]

\* the verbs getRandomVerbs(count, criteria) selects from
VerbsToSelectFrom(criteria) ==
    IF criteria = NoCriteria THEN verbsArray ELSE FilterVerbs(criteria)

\* a shuffle whose every step may pick any index of the array
RandomChoices_AnyIndex(n) == [1..(n - 1) -> 0..(n - 1)]

\* what Math.floor(Math.random() * (i + 1)) can give in shuffleArray on an
\* array of length n: js[i] in 0..i for i = n - 1 down to 1
RandomChoices(n) == {js \in [1..(n - 1) -> 0..(n - 1)] :
                        \A i \in 1..(n - 1) : js[i] <= i}

\* [s[a], s[b]] = [s[b], s[a]], indexes from 0
Swap(s, a, b) == [s EXCEPT ![a + 1] = s[b + 1], ![b + 1] = s[a + 1]]

\* the loop of shuffleArray from index i down to 1
RECURSIVE ShuffleFrom(_, _, _)
ShuffleFrom(shuffled, i, js) ==
    IF i <= 0 THEN shuffled
    ELSE ShuffleFrom(Swap(shuffled, i, js[i]), i - 1, js)

\* CacheService.shuffleArray(array): the shuffled copy
ShuffleArray(array, js) == ShuffleFrom(array, Len(array) - 1, js)

\* CacheService.getRandomVerbs(count, criteria) for count >= 0, js what
\* Math.random gives the shuffle
GetRandomVerbs(count, criteria, js) ==
    IF ~isInitialized THEN <<>>
    ELSE LET verbs == VerbsToSelectFrom(criteria)
         IN  IF Len(verbs) <= count THEN ShuffleArray(verbs, js)
             ELSE SubSeq(ShuffleArray(verbs, js), 1, count)

\* the criteria the catalog is asked with
CriteriaAsked ==
    {[verbTypes |-> t, difficultyLevels |-> d, infinitives |-> s] :
        t \in VerbTypeLists, d \in DifficultyLists, s \in SpecificLists}

\* Numbers that need not be whole are fractions num / den, den > 0.
Fraction(n, d) == [num |-> n, den |-> d]

\* Math.round of a fraction >= 0: the nearest integer, halves upwards
MathRound(x) == (2 * x.num + x.den) \div (2 * x.den)

\* Math.round(percentage * 100) / 100
RoundTo2Decimals(x) == Fraction(MathRound(Fraction(x.num * 100, x.den)), 100)

\* userAnswers.get(question.id) || ''
AnswerOrEmpty(answers, id) ==
    IF id \in DOMAIN answers THEN answers[id] ELSE <<>>

\* QuizService.scoreQuiz(questions, userAnswers, startTime)
ScoreQuiz(qs, answers) ==
    LET scoredQuestions ==
            [k \in 1..Len(qs) |->
                [id |-> qs[k].id, verb |-> qs[k].verb, tense |-> qs[k].tense,
                 person |-> qs[k].person,
                 correctAnswer |-> qs[k].correctAnswer,
                 userAnswer |-> AnswerOrEmpty(answers, qs[k].id),
                 isCorrect |->
                     ValidateAnswer(qs[k], AnswerOrEmpty(answers, qs[k].id))]]
        correctCount ==
            Cardinality({k \in 1..Len(qs) : scoredQuestions[k].isCorrect})
        totalQuestions == Len(qs)
        percentage ==
            IF totalQuestions > 0
            THEN Fraction(correctCount * 100, totalQuestions)
            ELSE Fraction(0, 1)
    IN  [questions |-> scoredQuestions,
         score |-> correctCount,
         totalQuestions |-> totalQuestions,
         percentage |-> RoundTo2Decimals(percentage)]

\* every question generateQuestions can build from a verb of the pool
QuestionPool ==
    {q \in {[verb |-> v, tense |-> tp[1], person |-> tp[2],
             correctAnswer |-> GetConjugation(v, tp[1], tp[2])] :
                v \in VerbPool,
                tp \in {"praesens", "praeteritum"} \X {"ich", "du"}} :
        q.correctAnswer # Undefined}

\* the quizzes of at most n questions, question k with the id k
QuestionLists(n) ==
    {[k \in 1..Len(s) |->
         [id |-> k, verb |-> s[k].verb, tense |-> s[k].tense,
          person |-> s[k].person, correctAnswer |-> s[k].correctAnswer]] :
     s \in {x \in UNION {[1..m -> QuestionPool] : m \in 0..n} :
               \A i, j \in 1..Len(x) : x[i] = x[j] => i = j}}

\* what the user types into the answer field
TypedAnswers == {<<" ">>, <<"a", " ">>, <<"A", "B">>, <<"b", ".">>}

\* the characters of the texts normalizeAnswer is tried on
TypedChars == {"a", "B", " ", "\t", ".", "?"}

Texts(n) == UNION {[1..m -> TypedChars] : m \in 0..n}

NoAnswers == [id \in {} |-> <<>>]

NoResult == [done |-> FALSE]

NoVocabQuiz == [mode |-> "none"]

\* the value of a form control after reset()
Null == <<"null">>

\* what the answer control can hold when the form is submitted
FormValues ==
    {Null, <<"o">>, <<" ", " ">>, <<"g", "o">>, <<"a", "a">>}

\* the verbs a vocabulary quiz asks for
VocabVerbLists(n) ==
    UNION {[1..k -> {gehen, sehen}] : k \in 1..n}

NoValidation == [done |-> FALSE, valid |-> FALSE, errors |-> <<>>]

NoQuestions == [done |-> FALSE, list |-> <<>>]

\* no quiz is being answered
ScoreIdle ==
    /\ userAnswers = NoAnswers
    /\ quizResult = NoResult
    /\ quizState = NoVocabQuiz
    /\ answer = <<>>
    /\ passes = <<>>

\* nothing loaded
CacheIdle ==
    /\ verbsArray = <<>>
    /\ verbsMap = EmptyMap
    /\ isInitialized = FALSE
    /\ LoadIdle

\* nothing asked
QuizIdle ==
    /\ config = DefaultConfig
    /\ validation = NoValidation
    /\ questions = NoQuestions

NoPick == [done |-> FALSE]

NoCheck == [done |-> FALSE, user |-> <<>>, correct |-> <<>>]

NoGuard == [state |-> "none"]

CallIdle ==
    /\ picked = NoPick
    /\ checked = NoCheck
    /\ guard = NoGuard

AppIdle == CacheIdle /\ QuizIdle /\ ScoreIdle /\ CallIdle

\* ------------------------------------------------------------------ Init
Init ==
    /\ results = <<>>
    /\ lastSync = NoTime
    /\ remote = <<>>
    /\ uploads = EmptyBag
    /\ downloads = EmptyBag
    /\ now = 0
    /\ nextId = 1
    /\ nextForeign = 1
    /\ nextReq = 1
    /\ out = [op |-> "none"]
    /\ everSynced = {}
    /\ AppIdle

\* --------------------------------------------------------------- actions
\* a save that pushes the new attempt to the remote store at once
SaveResult_AutoSync(u, ok) ==
    /\ nextId <= MaxAttempts
    /\ nextReq <= MaxRequests
    /\ LET testResult == [id |-> nextId,
                          user_id |-> u,
                          test_date |-> now,
                          client_generated_id |-> KeyOf(nextId),
                          synced |-> FALSE,
                          synced_at |-> NoTime]
       IN  /\ results' = IF ok THEN SaveTestResult(results, testResult)
                         ELSE results
           /\ uploads' = uploads (+) UploadResults(<<testResult>>, now)
    /\ nextId' = IF ok THEN nextId + 1 ELSE nextId
    /\ nextReq' = nextReq + 1
    /\ out' = [op |-> "save", threw |-> ~ok]
    /\ everSynced' = everSynced \cup SyncedIds(results')
    /\ UNCHANGED <<appVars, lastSync, remote, downloads, now, nextForeign>>

\* a save that keeps a rejected write to itself
SaveResult_Swallowed(u, ok) ==
    /\ nextId <= MaxAttempts
    /\ LET testResult == [id |-> nextId,
                          user_id |-> u,
                          test_date |-> now,
                          client_generated_id |-> KeyOf(nextId),
                          synced |-> FALSE,
                          synced_at |-> NoTime]
       IN  results' = IF ok THEN SaveTestResult(results, testResult)
                      ELSE results
    /\ nextId' = IF ok THEN nextId + 1 ELSE nextId
    /\ out' = [op |-> "save", threw |-> FALSE]
    /\ everSynced' = everSynced \cup SyncedIds(results')
    /\ UNCHANGED <<appVars, lastSync, remote, uploads, downloads, now,
                   nextForeign, nextReq>>

\* ResultsService.saveResult / VocabQuizTestComponent.finishQuiz: a finished
\* quiz is appended with fresh uuids, synced: false, synced_at: null.
\* ok = FALSE: setItem throws (QuotaExceededError) and the error propagates.
SaveResult(u, ok) ==
    /\ nextId <= MaxAttempts
    /\ LET testResult == [id |-> nextId,
                          user_id |-> u,
                          test_date |-> now,
                          client_generated_id |-> KeyOf(nextId),
                          synced |-> FALSE,
                          synced_at |-> NoTime]
       IN  results' = IF ok THEN SaveTestResult(results, testResult)
                      ELSE results
    /\ nextId' = IF ok THEN nextId + 1 ELSE nextId
    /\ out' = [op |-> "save", threw |-> ~ok]
    /\ everSynced' = everSynced \cup SyncedIds(results')
    /\ UNCHANGED <<appVars, lastSync, remote, uploads, downloads, now, nextForeign,
                   nextReq>>

\* HistoryService.deleteResult -> StorageService.deleteTestResult(id)
DeleteResult(id, ok) ==
    LET filtered == DeleteTestResultIn(results, id)
        found == FindIndex(results, id) # 0
    IN  /\ results' = IF found /\ ok THEN filtered ELSE results
        /\ out' = [op |-> "delete", threw |-> found /\ ~ok]
        /\ everSynced' = everSynced \cup SyncedIds(results')
        /\ UNCHANGED <<appVars, lastSync, remote, uploads, downloads, now, nextId,
                       nextForeign, nextReq>>

\* SyncService.clearSyncedResults()
ClearSyncedResults(failAt) ==
    LET allResults == GetTestResults(results)
        syncedCount == Len(allResults) - Len(GetUnsyncedResults(results))
        c == ClearEach(results, allResults, 1, failAt)
    IN  /\ failAt \in 0..Len(allResults)
        /\ results' = IF syncedCount = 0 THEN results ELSE c.store
        /\ out' = [op |-> "clearSynced", count |-> syncedCount,
                   threw |-> syncedCount # 0 /\ c.threw]
        /\ everSynced' = everSynced \cup SyncedIds(results')
        /\ UNCHANGED <<appVars, lastSync, remote, uploads, downloads, now, nextId,
                       nextForeign, nextReq>>

\* SyncService.getSyncStats()
GetSyncStats ==
    LET allResults == GetTestResults(results)
    IN  /\ out' = [op |-> "stats",
                   totalResults |-> Len(allResults),
                   syncedResults |->
                       Len(SelectSeq(allResults, LAMBDA r : r.synced)),
                   unsyncedResults |->
                       Len(SelectSeq(allResults, LAMBDA r : ~r.synced)),
                   lastSyncTime |-> lastSync]
        /\ UNCHANGED <<appVars, results, lastSync, remote, uploads, downloads, now,
                       nextId, nextForeign, nextReq, everSynced>>

\* SyncService.uploadHistory(), up to the point where it returns the
\* observable: either the immediate result, or the upsert request.
UploadHistory ==
    LET unsyncedResults == GetUnsyncedResults(results)
    IN  /\ IF Len(unsyncedResults) = 0
           THEN /\ out' = [op |-> "upload", success |-> TRUE,
                           syncedCount |-> 0, failedCount |-> 0]
                /\ UNCHANGED <<uploads, nextReq>>
           ELSE /\ nextReq <= MaxRequests
                /\ uploads' = uploads (+)
                                UploadResults(unsyncedResults, now)
                /\ nextReq' = nextReq + 1
                /\ out' = out
        /\ UNCHANGED <<appVars, results, lastSync, remote, downloads, now, nextId,
                       nextForeign, everSynced>>

\* The remote store serves an upsert.  applied: the statement committed;
\* answered: the client learns of it.  A commit whose answer is lost, and a
\* statement that never commits, both reach the client as an error.
ServeUpsert(r, applied, answered) ==
    /\ BagIn(r, uploads)
    /\ r.stage = "sent"
    /\ remote' = IF applied THEN Upsert(remote, r.rows) ELSE remote
    /\ uploads' = (uploads (-) SetToBag({r})) (+)
                    SetToBag({[r EXCEPT !.stage =
                        IF applied /\ answered THEN "ok" ELSE "err"]})
    /\ UNCHANGED <<appVars, results, lastSync, downloads, now, nextId, nextForeign,
                   nextReq, out, everSynced>>

\* uploadHistory's tap / map / catchError on the response.
\* saved = FALSE: saveLastSyncTime's setItem throws, which it swallows.
UploadResponse(r, failAt, saved) ==
    /\ BagIn(r, uploads)
    /\ r.stage \in {"ok", "err"}
    /\ failAt \in 0..Len(r.rows)
    /\ uploads' = uploads (-) SetToBag({r})
    /\ LET m == MarkEach(results, r.rows, 1, failAt, now)
       IN  IF UploadConfirmed(r) /\ ~m.threw
           THEN /\ results' = m.store
                /\ lastSync' = IF saved THEN now ELSE lastSync
                /\ out' = [op |-> "upload", success |-> TRUE,
                           syncedCount |-> Len(r.rows), failedCount |-> 0]
           ELSE /\ results' = IF UploadConfirmed(r) THEN m.store ELSE results
                /\ lastSync' = lastSync
                /\ out' = [op |-> "upload", success |-> FALSE,
                           syncedCount |-> 0, failedCount |-> Len(r.rows)]
    /\ everSynced' = everSynced \cup SyncedIds(results')
    /\ UNCHANGED <<appVars, remote, downloads, now, nextId, nextForeign, nextReq>>

\* SyncService.downloadHistory(userId), up to the select request
DownloadHistory(scope) ==
    /\ nextReq <= MaxRequests
    /\ downloads' = downloads (+)
                      SetToBag({[scope |-> scope, stage |-> "sent",
                                 rows |-> <<>>, failed |-> FALSE]})
    /\ nextReq' = nextReq + 1
    /\ UNCHANGED <<appVars, results, lastSync, remote, uploads, now, nextId,
                   nextForeign, out, everSynced>>

\* The remote store serves a select; on an error SupabaseService's
\* catchError turns the response into an empty list.
ServeSelect(r, ok) ==
    /\ BagIn(r, downloads)
    /\ r.stage = "sent"
    /\ downloads' = (downloads (-) SetToBag({r})) (+)
                      SetToBag({[r EXCEPT !.stage = "resp",
                                 !.rows = IF ok
                                          THEN SelectHistory(remote, r.scope)
                                          ELSE <<>>,
                                 !.failed = ~ok]})
    /\ UNCHANGED <<appVars, results, lastSync, remote, uploads, now, nextId,
                   nextForeign, nextReq, out, everSynced>>

\* downloadHistory's map / tap / catchError on the response.
DownloadResponse(r, failAt, saved) ==
    /\ BagIn(r, downloads)
    /\ r.stage = "resp"
    /\ failAt \in 0..Len(r.rows)
    /\ downloads' = downloads (-) SetToBag({r})
    /\ LET m == MergeEach(results, r.rows, 1, failAt,
                          Keys(GetTestResults(results)))
       IN  /\ results' = m.store
           /\ lastSync' = IF ~m.threw /\ saved THEN now ELSE lastSync
           /\ out' = [op |-> "download",
                      merged |-> GetTestResults(m.store),
                      fetched |-> Len(r.rows),
                      added |-> Len(m.store) - Len(results),
                      threw |-> m.threw]
    /\ everSynced' = everSynced \cup SyncedIds(results')
    /\ UNCHANGED <<appVars, remote, uploads, now, nextId, nextForeign, nextReq>>

\* Another client of the same remote store uploads one of its attempts.
ForeignUpload(u) ==
    /\ nextForeign <= MaxForeign
    /\ remote' = UpsertRow(remote,
                    [id |-> MaxAttempts + nextForeign,
                     user_id |-> u,
                     test_date |-> now,
                     synced_from_client |-> now,
                     client_generated_id |-> KeyOf(MaxAttempts + nextForeign)])
    /\ nextForeign' = nextForeign + 1
    /\ UNCHANGED <<appVars, results, lastSync, uploads, downloads, now, nextId,
                   nextReq, out, everSynced>>

\* Time passes.
Tick ==
    /\ now < MaxTime
    /\ now' = now + 1
    /\ UNCHANGED <<appVars, results, lastSync, remote, uploads, downloads, nextId,
                   nextForeign, nextReq, out, everSynced>>

Next ==
    \/ \E u \in Users, ok \in BOOLEAN : SaveResult(u, ok)
    \/ \E id \in AllIds, ok \in BOOLEAN : DeleteResult(id, ok)
    \/ \E failAt \in 0..(MaxAttempts + MaxForeign) : ClearSyncedResults(failAt)
    \/ GetSyncStats
    \/ UploadHistory
    \/ \E r \in BagToSet(uploads), applied, answered \in BOOLEAN :
            ServeUpsert(r, applied, answered)
    \/ \E r \in BagToSet(uploads), failAt \in 0..MaxAttempts,
          saved \in BOOLEAN : UploadResponse(r, failAt, saved)
    \/ \E scope \in Users : DownloadHistory(scope)
    \/ \E r \in BagToSet(downloads), ok \in BOOLEAN : ServeSelect(r, ok)
    \/ \E r \in BagToSet(downloads), failAt \in 0..(MaxAttempts + MaxForeign),
          saved \in BOOLEAN : DownloadResponse(r, failAt, saved)
    \/ \E u \in Users : ForeignUpload(u)
    \/ Tick

Spec == Init /\ [][Next]_vars

\* ------------------------------------------------------------- the quiz
\* The ledger and the sync reconciler at rest.
SyncIdle ==
    /\ results = <<>>
    /\ lastSync = NoTime
    /\ remote = <<>>
    /\ uploads = EmptyBag
    /\ downloads = EmptyBag
    /\ now = 0
    /\ nextId = 1
    /\ nextForeign = 1
    /\ nextReq = 1
    /\ out = [op |-> "none"]
    /\ everSynced = {}

\* The quiz is set up over a cache that is still empty or holds a loaded
\* list (initializeCache never leaves an empty list ready), with any config
\* the config form or localStorage can hand over.
QuizInit ==
    /\ SyncIdle
    /\ CallIdle
    /\ \E verbs \in VerbLists(MaxVerbs) :
           /\ verbsArray = verbs
           /\ verbsMap = MapOf(verbs)
           /\ isInitialized = (Len(verbs) > 0)
    /\ LoadIdle
    /\ config \in Configs
    /\ validation = NoValidation
    /\ questions = NoQuestions
    /\ ScoreIdle

\* QuizContainerComponent.initializeQuiz / AppComponent.testQuizService:
\* this.quizService.validateConfiguration(config)
CallValidateConfiguration ==
    /\ validation' = [done |-> TRUE,
                      valid |-> ValidateConfiguration(config).valid,
                      errors |-> ValidateConfiguration(config).errors]
    /\ UNCHANGED <<syncVars, callVars, cacheVars, scoreVars, config, questions>>

\* this.quizService.generateQuestions(config)
CallGenerateQuestions ==
    /\ \E pick \in ShuffledSlices(1..Len(CombinationsOf(config)),
                                  ActualQuestionCount(config)) :
           questions' = [done |-> TRUE,
                         list |-> GenerateQuestions(config, pick)]
    /\ UNCHANGED <<syncVars, callVars, cacheVars, scoreVars, config, validation>>

QuizNext ==
    \/ CallValidateConfiguration
    \/ CallGenerateQuestions

QuizSpec == QuizInit /\ [][QuizNext]_vars

\* ------------------------------------------------- normalizing an answer
NormalizeInit ==
    /\ SyncIdle
    /\ CallIdle
    /\ CacheIdle
    /\ QuizIdle
    /\ userAnswers = NoAnswers
    /\ quizResult = NoResult
    /\ quizState = NoVocabQuiz
    /\ answer \in Texts(MaxLen)
    /\ passes = <<>>

\* normalizeAnswer applied to the text, then to what it returned
CallNormalizeAnswer ==
    /\ Len(passes) < MaxPasses
    /\ passes' = Append(passes,
                        NormalizeAnswer(IF passes = <<>> THEN answer
                                        ELSE passes[Len(passes)]))
    /\ UNCHANGED <<syncVars, callVars, cacheVars, quizVars, userAnswers, quizResult,
                   quizState, answer>>

NormalizeNext == CallNormalizeAnswer

NormalizeSpec == NormalizeInit /\ [][NormalizeNext]_vars

\* ------------------------------------------------------ answering a quiz
\* The user is in one quiz at a time: a conjugation quiz whose questions
\* were generated (AppComponent also scores an empty list), or a vocabulary
\* quiz over the verbs getRandomVerbs returned (never none).
ScoreInit ==
    /\ SyncIdle
    /\ CallIdle
    /\ CacheIdle
    /\ config = DefaultConfig
    /\ validation = NoValidation
    /\ userAnswers = NoAnswers
    /\ quizResult = NoResult
    /\ answer = <<>>
    /\ passes = <<>>
    /\ \/ /\ \E qs \in QuestionLists(MaxQuestions) :
                 questions = [done |-> TRUE, list |-> qs]
          /\ quizState = NoVocabQuiz
       \/ /\ questions = NoQuestions
          /\ \E verbs \in VocabVerbLists(MaxQuestions) :
                 quizState = [mode |-> "vocabulary",
                              questions |-> [k \in 1..Len(verbs) |->
                                  [verb |-> verbs[k], userAnswer |-> <<>>,
                                   submitted |-> FALSE]],
                              currentIndex |-> 0, score |-> 0,
                              showFeedback |-> FALSE, navigating |-> FALSE,
                              finished |-> FALSE, finishes |-> 0]

\* QuizContainerComponent.saveCurrentAnswer() with question id current and
\* text in the answer field
SaveCurrentAnswer(id, text) ==
    /\ questions.done /\ ~quizResult.done
    /\ id \in 1..Len(questions.list)
    /\ userAnswers' =
           IF Trim(text) # <<>>
           THEN [k \in DOMAIN userAnswers \cup {id} |->
                    IF k = id THEN Trim(text) ELSE userAnswers[k]]
           ELSE userAnswers
    /\ UNCHANGED <<syncVars, callVars, cacheVars, quizVars, quizResult, quizState,
                   answer, passes>>

\* QuizContainerComponent.clearCurrentAnswer()
ClearCurrentAnswer(id) ==
    /\ questions.done /\ ~quizResult.done
    /\ id \in 1..Len(questions.list)
    /\ userAnswers' = [k \in DOMAIN userAnswers \ {id} |-> userAnswers[k]]
    /\ UNCHANGED <<syncVars, callVars, cacheVars, quizVars, quizResult, quizState,
                   answer, passes>>

\* QuizContainerComponent.submitQuiz(): scoreQuiz, then
\* ResultsService.saveResult(result, null).  ok = FALSE: setItem throws.
SubmitQuiz(ok) ==
    /\ questions.done /\ ~quizResult.done
    /\ nextId <= MaxAttempts
    /\ LET result == ScoreQuiz(questions.list, userAnswers)
           testResult == [id |-> nextId,
                          user_id |-> "anon",
                          test_date |-> now,
                          test_type |-> "conjugation",
                          score |-> result.score,
                          total_questions |-> result.totalQuestions,
                          percentage |-> result.percentage,
                          synced |-> FALSE,
                          synced_at |-> NoTime,
                          client_generated_id |-> KeyOf(nextId)]
       IN  /\ quizResult' = [done |-> TRUE, questions |-> result.questions,
                             score |-> result.score,
                             totalQuestions |-> result.totalQuestions,
                             percentage |-> result.percentage]
           /\ results' = IF ok THEN SaveTestResult(results, testResult)
                         ELSE results
    /\ nextId' = IF ok THEN nextId + 1 ELSE nextId
    /\ out' = [op |-> "save", threw |-> ~ok]
    /\ UNCHANGED <<lastSync, remote, uploads, downloads, now, nextForeign,
                   nextReq, everSynced, callVars, cacheVars, quizVars,
                   userAnswers, quizState, answer, passes>>

\* answerForm.invalid for the value of the answer control: Validators.required
\* rejects null and the empty string, Validators.minLength(2) a text of one
\* character
FormInvalid(value) == value = Null \/ Len(value) < 2

\* VocabQuizTestComponent.submitAnswer() with value in the answer control;
\* the form is shown while showFeedback is false
SubmitAnswer(value) ==
    /\ quizState.mode = "vocabulary"
    /\ ~quizState.finished /\ ~quizState.showFeedback
    /\ IF FormInvalid(value) THEN quizState' = quizState
       ELSE LET current == quizState.currentIndex + 1
                userAnswer == Trim(value)
                correctAnswer ==
                    Spelling(quizState.questions[current].verb.english_translation)
                isCorrect == CheckAnswer(userAnswer, correctAnswer)
            IN  quizState' = [quizState EXCEPT
                    !.questions[current] =
                        [verb |-> @.verb, userAnswer |-> userAnswer,
                         isCorrect |-> isCorrect, submitted |-> TRUE],
                    !.score = IF isCorrect THEN @ + 1 ELSE @,
                    !.showFeedback = TRUE]
    /\ UNCHANGED <<syncVars, callVars, cacheVars, quizVars, userAnswers,
                   quizResult, answer, passes>>

\* the answers finishQuiz() stores: isCorrect: q.isCorrect || false
VocabAnswers(qs) ==
    [k \in 1..Len(qs) |->
        [infinitive |-> qs[k].verb.infinitive,
         correctAnswer |-> qs[k].verb.english_translation,
         userAnswer |-> qs[k].userAnswer,
         isCorrect |-> IF "isCorrect" \in DOMAIN qs[k]
                       THEN qs[k].isCorrect ELSE FALSE]]

\* VocabQuizTestComponent.nextQuestion(), called from the feedback shown
\* after an answer; it ends in finishQuiz() after the last question.
\* ok = FALSE: setItem throws, and router.navigate is not reached.
NextQuestion(ok) ==
    /\ quizState.mode = "vocabulary"
    /\ ~quizState.finished /\ quizState.showFeedback
    /\ IF quizState.currentIndex < Len(quizState.questions) - 1
       THEN /\ quizState' = [quizState EXCEPT !.currentIndex = @ + 1,
                                              !.showFeedback = FALSE]
            /\ UNCHANGED <<results, nextId, out>>
       ELSE /\ nextId <= MaxAttempts
            /\ quizState.finishes < MaxFinishes
            /\ LET result == [id |-> nextId,
                              user_id |-> "anon",
                              test_date |-> now,
                              test_type |-> "vocabulary",
                              score |-> quizState.score,
                              total_questions |-> Len(quizState.questions),
                              percentage |->
                                  Fraction(quizState.score * 100,
                                           Len(quizState.questions)),
                              answers |-> VocabAnswers(quizState.questions),
                              synced |-> FALSE,
                              synced_at |-> NoTime,
                              client_generated_id |-> KeyOf(nextId)]
               IN  results' = IF ok THEN SaveTestResult(results, result)
                              ELSE results
            /\ nextId' = IF ok THEN nextId + 1 ELSE nextId
            /\ out' = [op |-> "save", threw |-> ~ok]
            /\ quizState' = [quizState EXCEPT
                                 !.showFeedback = FALSE,
                                 !.navigating = quizState.navigating \/ ok,
                                 !.finishes = @ + 1]
    /\ UNCHANGED <<lastSync, remote, uploads, downloads, now, nextForeign,
                   nextReq, everSynced, callVars, cacheVars, quizVars,
                   userAnswers, quizResult, answer, passes>>

\* the navigation started by router.navigate(['/vocab-quiz/results']) ends
\* and the quiz component is destroyed
NavigationEnd ==
    /\ quizState.mode = "vocabulary"
    /\ quizState.navigating /\ ~quizState.finished
    /\ quizState' = [quizState EXCEPT !.finished = TRUE]
    /\ UNCHANGED <<syncVars, callVars, cacheVars, quizVars, userAnswers,
                   quizResult, answer, passes>>

ScoreNext ==
    \/ \E id \in 1..MaxQuestions, text \in TypedAnswers :
           SaveCurrentAnswer(id, text)
    \/ \E id \in 1..MaxQuestions : ClearCurrentAnswer(id)
    \/ \E ok \in BOOLEAN : SubmitQuiz(ok)
    \/ \E value \in FormValues : SubmitAnswer(value)
    \/ \E ok \in BOOLEAN : NextQuestion(ok)
    \/ NavigationEnd

ScoreSpec == ScoreInit /\ [][ScoreNext]_vars

\* ------------------------------------------------- loading the catalog
\* The cache starts empty; AppComponent calls initializeCache() on startup
\* and the admin upload reloads it after each successful upload.
CatalogInit ==
    /\ SyncIdle
    /\ CallIdle
    /\ CacheIdle
    /\ QuizIdle
    /\ ScoreIdle

\* initializeCache() call c goes on to the stage given
Moved(c, stage) == (inits \ {c}) \cup {[c EXCEPT !.stage = stage]}

\* initializeCache() up to its first await: nothing to do when the cache is
\* ready, else loadAllVerbs() is sent
StartInitializeCache ==
    /\ nextInit <= MaxInits
    /\ inits' = inits \cup
           {[id |-> nextInit,
             stage |-> IF isInitialized THEN "resolved" ELSE "remote",
             gen |-> epoch]}
    /\ nextInit' = nextInit + 1

\* this.verbsArray = verbs; this.verbsMap.clear(); verbs.forEach(set);
\* this.isInitialized = true, done by call c
StoreVerbs(c, verbs) ==
    /\ verbsArray' = verbs
    /\ verbsMap' = MapOf(verbs)
    /\ isInitialized' = TRUE
    /\ writer' = [gen |-> c.gen, verbs |-> verbs]

\* AppComponent.ngOnInit: this.cacheService.initializeCache()
InitializeCache ==
    /\ StartInitializeCache
    /\ UNCHANGED <<syncVars, callVars, quizVars, scoreVars, verbsArray, verbsMap,
                   isInitialized, epoch, writer>>

\* CacheService.clearCache()
ClearCache ==
    /\ verbsMap' = EmptyMap
    /\ verbsArray' = <<>>
    /\ isInitialized' = FALSE
    /\ epoch' = epoch + 1
    /\ writer' = NoWriter

\* VerbUploadComponent.uploadVerbs, the upload succeeded:
\* clearCache(), then initializeCache() which nobody waits for
ReloadCache ==
    /\ epoch < MaxReloads
    /\ nextInit <= MaxInits
    /\ ClearCache
    /\ inits' = inits \cup
           {[id |-> nextInit, stage |-> "remote", gen |-> epoch + 1]}
    /\ nextInit' = nextInit + 1
    /\ UNCHANGED <<syncVars, callVars, quizVars, scoreVars>>

\* initializeCache() call c after await loadAllVerbs(): verbs are the rows
\* of the table, <<>> when there are none or the request failed; without
\* rows the call turns to the fallback file
LoadAllVerbsResponse(c, verbs) ==
    /\ c \in inits
    /\ c.stage = "remote"
    /\ IF verbs = <<>>
       THEN /\ inits' = Moved(c, "fallback")
            /\ UNCHANGED <<verbsArray, verbsMap, isInitialized, writer>>
       ELSE /\ StoreVerbs(c, verbs)
            /\ inits' = Moved(c, "resolved")
    /\ UNCHANGED <<syncVars, callVars, quizVars, scoreVars, nextInit, epoch>>

\* initializeCache() call c after loadFallbackData(): the file was fetched
\* (ok) and held verbs, or the call fails
LoadFallbackData(c, ok, verbs) ==
    /\ c \in inits
    /\ c.stage = "fallback"
    /\ IF ~ok \/ verbs = <<>>
       THEN /\ inits' = Moved(c, "rejected")
            /\ UNCHANGED <<verbsArray, verbsMap, isInitialized, writer>>
       ELSE /\ StoreVerbs(c, verbs)
            /\ inits' = Moved(c, "resolved")
    /\ UNCHANGED <<syncVars, callVars, quizVars, scoreVars, nextInit, epoch>>

CatalogNext ==
    \/ InitializeCache
    \/ ReloadCache
    \/ \E c \in inits, verbs \in UniqueLists(MaxVerbs) :
           LoadAllVerbsResponse(c, verbs)
    \/ \E c \in inits, ok \in BOOLEAN, verbs \in VerbLists(MaxVerbs) :
           LoadFallbackData(c, ok, verbs)

CatalogSpec == CatalogInit /\ [][CatalogNext]_vars

\* ------------------------------------------------------ random verbs
MaxCatalog == 3       \* verbs in the cache when random verbs are asked for

\* The cache holds a loaded list or is still empty and not ready.
RandomInit ==
    /\ SyncIdle
    /\ CallIdle
    /\ \E verbs \in VerbLists(MaxCatalog) :
           /\ verbsArray = verbs
           /\ verbsMap = MapOf(verbs)
           /\ isInitialized = (Len(verbs) > 0)
    /\ LoadIdle
    /\ QuizIdle
    /\ ScoreIdle

\* this.cacheService.getRandomVerbs(count, criteria); the shuffle works on
\* copies ([...verbs], [...array]), so this.verbsArray stays as it is
CallGetRandomVerbs(count, criteria, js) ==
    /\ picked' = [done |-> TRUE, count |-> count,
                  matched |-> IF isInitialized
                              THEN VerbsToSelectFrom(criteria) ELSE <<>>,
                  verbs |-> GetRandomVerbs(count, criteria, js)]
    /\ verbsArray' = verbsArray
    /\ UNCHANGED <<syncVars, quizVars, scoreVars, verbsMap, isInitialized,
                   inits, nextInit, epoch, writer, checked, guard>>

RandomNext ==
    \E count \in 0..(MaxCatalog + 1), criteria \in CriteriaAsked \cup {NoCriteria} :
        \E js \in RandomChoices(Len(VerbsToSelectFrom(criteria))) :
            CallGetRandomVerbs(count, criteria, js)

RandomSpec == RandomInit /\ [][RandomNext]_vars

\* ------------------------------------------------- checking a translation
MaxAnswerLen == 4     \* characters of the answer checkAnswer is given
MaxCorrectLen == 3    \* characters of the translation it is compared with

AnswerChars == {"t", "O", " ", "\t", "a"}

AnswerTexts(n) == UNION {[1..m -> AnswerChars] : m \in 0..n}

\* Any answer and any translation may be handed to checkAnswer.
CheckInit ==
    /\ SyncIdle
    /\ CacheIdle
    /\ QuizIdle
    /\ ScoreIdle
    /\ picked = NoPick
    /\ guard = NoGuard
    /\ \E user \in AnswerTexts(MaxAnswerLen),
          correct \in AnswerTexts(MaxCorrectLen) :
           checked = [done |-> FALSE, user |-> user, correct |-> correct]

\* this.checkAnswer(userAnswer, correctAnswer)
CallCheckAnswer ==
    /\ ~checked.done
    /\ checked' = [done |-> TRUE, user |-> checked.user,
                   correct |-> checked.correct,
                   result |-> CheckAnswer(checked.user, checked.correct)]
    /\ UNCHANGED <<syncVars, cacheVars, quizVars, scoreVars, picked, guard>>

CheckNext == CallCheckAnswer

CheckSpec == CheckInit /\ [][CheckNext]_vars

\* -------------------------------------------------------- the route guard
MaxHalfSeconds == 3        \* half seconds a guard run is followed for
TimeoutHalfSeconds == 60   \* timeout(30000) in periods of interval(500)

\* The app has started with an empty cache; a navigation to a guarded route
\* may begin at any time.
GuardInit == CatalogInit

\* dataLoadedGuard(route, state) up to its return: true at once when the
\* cache is ready, else the interval(500) pipeline the router subscribes to
InvokeGuard ==
    /\ guard = NoGuard
    /\ guard' = [state |-> IF IsCacheReady THEN "allowed" ELSE "waiting",
                 elapsed |-> 0]
    /\ UNCHANGED <<syncVars, cacheVars, quizVars, scoreVars, picked, checked>>

\* Half a second passes.  In a waiting guard interval(500) emits, map reads
\* isCacheReady() and take(1) ends the stream with that value: true allows,
\* false calls router.navigate(['/']) and denies.  timeout(30000) is
\* unsubscribed with the stream.
HalfSecond ==
    /\ guard # NoGuard
    /\ guard.elapsed < MaxHalfSeconds
    /\ guard' = [state |-> IF guard.state = "waiting"
                           THEN IF IsCacheReady THEN "allowed" ELSE "denied"
                           ELSE guard.state,
                 elapsed |-> guard.elapsed + 1]
    /\ UNCHANGED <<syncVars, cacheVars, quizVars, scoreVars, picked, checked>>

GuardNext ==
    \/ CatalogNext
    \/ InvokeGuard
    \/ HalfSecond

\* time passes
GuardSpec == GuardInit /\ [][GuardNext]_vars /\ WF_vars(HalfSecond)

\* ----------------------------------------------------- reading the ledger
\* The stored record of attempt id (ids are uuids: at most one per id)
Stored(store, id) == store[FindIndex(store, id)]

IsStored(store, id) == \E i \in 1..Len(store) : store[i].id = id

SuccessOf(syncedCount) ==
    [op |-> "upload", success |-> TRUE, syncedCount |-> syncedCount,
     failedCount |-> 0]

\* The step is the handler of the response to upload request r
HandlesUpload(r) ==
    \E failAt \in 0..Len(r.rows), saved \in BOOLEAN :
        UploadResponse(r, failAt, saved)

\* The step is the handler of the response to download request r
HandlesDownload(r) ==
    \E failAt \in 0..Len(r.rows), saved \in BOOLEAN :
        DownloadResponse(r, failAt, saved)

\* ------------------------------------------------------------------ C1
\* C1: whenever uploadHistory ends with success = false, the step that
\* produced that result changed no stored attempt: the ledger is exactly
\* as it was, no subset of the sent attempts is marked synced.
C1_FailedUploadLeavesLedger ==
    [][\A r \in BagToSet(uploads) :
          (HandlesUpload(r) /\ ~out'.success) => results' = results]_vars

\* ------------------------------------------------------------------ C2
\* C2: when the remote write is confirmed successful, every attempt that
\* was sent and is still stored is afterwards synced with a synced_at
\* timestamp, and the result is success with syncedCount = attempts sent.
C2_ConfirmedUploadMarksAll ==
    [][\A r \in BagToSet(uploads) :
          (HandlesUpload(r) /\ r.stage = "ok") =>
              /\ out' = SuccessOf(Len(r.rows))
              /\ \A i \in 1..Len(r.rows) :
                    IsStored(results', r.rows[i].id) =>
                        /\ Stored(results', r.rows[i].id).synced
                        /\ Stored(results', r.rows[i].id).synced_at # NoTime
      ]_vars

\* ------------------------------------------------------------------ C3
\* C3: after any sequence of uploads (retries after a failed or lost
\* response, overlapping uploads of the same attempts) the remote store
\* holds at most one row per client_generated_id.
C3_RemoteOneRowPerKey ==
    \A i, j \in 1..Len(remote) :
        remote[i].client_generated_id = remote[j].client_generated_id
            => i = j

\* Two uploads carrying the same attempt have both been committed by the
\* remote store and both await their handler.
C3_Witness ==
    \E r1, r2 \in BagToSet(uploads) :
        /\ r1 # r2 \/ CopiesIn(r1, uploads) >= 2
        /\ r1.stage = "ok" /\ r2.stage = "ok"
        /\ Keys(r1.rows) \cap Keys(r2.rows) \cap Keys(remote) # {}

\* ------------------------------------------------------------------ C4
\* C4: after any sequence of downloads (repeated or overlapping) among
\* local appends, uploads and deletes, no two stored attempts share a
\* client_generated_id.
C4_LocalOneAttemptPerKey ==
    \A i, j \in 1..Len(results) :
        results[i].client_generated_id = results[j].client_generated_id
            => i = j

\* A download has just merged a non-empty response that added nothing:
\* what it fetched was already stored, an attempt of another client
\* included, which only an earlier download can have stored.
C4_Witness ==
    /\ out.op = "download"
    /\ out.fetched >= 1 /\ out.added = 0 /\ ~out.threw
    /\ \E i \in 1..Len(results) : results[i].id \in ForeignIds

\* ------------------------------------------------------------------ C5
\* C5: uploadHistory called when no stored attempt is unsynced returns
\* success with syncedCount 0 and issues no remote write.
C5_NothingToUploadNoRemoteWrite ==
    [][(UploadHistory /\ \A i \in 1..Len(results) : results[i].synced) =>
          /\ out' = SuccessOf(0)
          /\ uploads' = uploads
          /\ remote' = remote]_vars

\* A second upload right after a successful one: everything stored is
\* synced, nothing is in flight, and the call returned success, count 0.
C5_Witness ==
    /\ out = SuccessOf(0)
    /\ results # <<>>
    /\ \A i \in 1..Len(results) : results[i].synced
    /\ \E i \in 1..Len(results) : results[i].id \in LocalIds
    /\ uploads = EmptyBag
    /\ lastSync # NoTime

\* ------------------------------------------------------------------ C6
IsStoredSynced(store, id) == IsStored(store, id) /\ Stored(store, id).synced

\* A created attempt is appended with synced = false, synced_at = null
CreatedUnsynced ==
    nextId' # nextId =>
        /\ IsStored(results', nextId)
        /\ ~Stored(results', nextId).synced
        /\ Stored(results', nextId).synced_at = NoTime

\* The step handles a confirmed successful response to an upload request
\* that contained attempt id
ConfirmedUploadOf(id) ==
    \E r \in BagToSet(uploads) :
        r.stage = "ok" /\ id \in Ids(r.rows) /\ HandlesUpload(r)

\* The step merges a download response that carries attempt id
DownloadMergeOf(id) ==
    \E r \in BagToSet(downloads) : id \in Ids(r.rows) /\ HandlesDownload(r)

C7_SyncedNeverUnsyncedNorResent ==
    [][/\ \A i \in 1..Len(results') :
            results'[i].id \in everSynced' => results'[i].synced
       /\ \A r \in BagToSet(uploads') :
            (r.stage = "sent" /\ CopiesIn(r, uploads') > CopiesIn(r, uploads))
                => Ids(r.rows) \cap everSynced = {}]_vars

\* An upload request is in flight that carries a still unsynced attempt and
\* leaves out a stored attempt of this client that is synced.
C7_Witness ==
    \E r \in BagToSet(uploads) :
        /\ r.stage = "sent"
        /\ \E i, j \in 1..Len(results) :
            /\ results[i].synced
            /\ results[i].id \in LocalIds
            /\ results[i].id \notin Ids(r.rows)
            /\ ~results[j].synced
            /\ results[j].id \in Ids(r.rows)

\* ------------------------------------------------------------------ C8
CountKey(store, key) ==
    Cardinality({j \in 1..Len(store) : store[j].client_generated_id = key})

\* C8: a download merge leaves every stored attempt as it was, and appends
\* each fetched attempt whose key was not stored exactly once, synced.
C8_DownloadKeepsLocalAppendsAbsent ==
    [][\A r \in BagToSet(downloads) : HandlesDownload(r) =>
          /\ \A i \in 1..Len(results) :
                /\ \E j \in 1..Len(results') : results'[j] = results[i]
                /\ CountKey(results', results[i].client_generated_id)
                     = CountKey(results, results[i].client_generated_id)
          /\ \A k \in 1..Len(r.rows) :
                r.rows[k].client_generated_id \notin Keys(results) =>
                    /\ CountKey(results', r.rows[k].client_generated_id) = 1
                    /\ \A j \in 1..Len(results') :
                          results'[j].client_generated_id
                              = r.rows[k].client_generated_id
                            => results'[j].synced
      ]_vars

\* ------------------------------------------------------------------ C9
\* C9: the last-sync timestamp changes only in a step that completes an
\* upload or a download successfully; a sync whose remote call failed
\* leaves it as it was.
C9_LastSyncOnlyOnSuccess ==
    [][lastSync' # lastSync =>
          \/ \E r \in BagToSet(uploads) :
                r.stage = "ok" /\ HandlesUpload(r) /\ out'.success
          \/ \E r \in BagToSet(downloads) :
                ~r.failed /\ HandlesDownload(r) /\ ~out'.threw]_vars

\* ------------------------------------------------------------------ C10
\* C10: a request to the remote store is issued only by uploadHistory (a
\* write) or downloadHistory (a read), and the remote table changes only
\* when it serves such a write (or another client's): saving, deleting,
\* clearing and querying attempts never cause a remote call.
C10_RemoteCallsOnlyOnExplicitSync ==
    [][/\ \A r \in BagToSet(uploads') :
            (r.stage = "sent" /\ CopiesIn(r, uploads') > CopiesIn(r, uploads))
                => UploadHistory
       /\ \A r \in BagToSet(downloads') :
            (r.stage = "sent"
                /\ CopiesIn(r, downloads') > CopiesIn(r, downloads))
                => \E scope \in Users : DownloadHistory(scope)
       /\ remote' # remote =>
            \/ \E r \in BagToSet(uploads), applied, answered \in BOOLEAN :
                    ServeUpsert(r, applied, answered)
            \/ \E u \in Users : ForeignUpload(u)]_vars

\* Attempts were saved and one deleted, an unsynced attempt is stored, and
\* no remote call has been issued so far.
C10_Witness ==
    /\ out = [op |-> "delete", threw |-> FALSE]
    /\ \E i \in 1..Len(results) : ~results[i].synced
    /\ Len(results) < nextId - 1
    /\ nextReq = 1
    /\ uploads = EmptyBag /\ downloads = EmptyBag
    /\ remote = <<>>

\* ----------------------------------------------------------------- C11
\* the elements of a list
Range(s) == {s[i] : i \in 1..Len(s)}

\* the verb defines a form for (tense, person): the table has the tense,
\* the tense has the person, and the form is not the empty string
Defines(verb, tense, person) ==
    /\ tense \in DOMAIN verb.conjugations
    /\ person \in DOMAIN verb.conjugations[tense]
    /\ verb.conjugations[tense][person] # <<>>

NonEmptySets(cfg) ==
    /\ cfg.tenses # <<>>
    /\ cfg.verbTypes # <<>>
    /\ cfg.persons # <<>>

\* C11: for a config with non-empty sets, generateQuestions returns no two
\* questions with the same (verb infinitive, tense, person) triple.
C11_NoDuplicateTriples ==
    (questions.done /\ NonEmptySets(config)) =>
        \A i, j \in 1..Len(questions.list) :
            (/\ questions.list[i].verb.infinitive
                    = questions.list[j].verb.infinitive
             /\ questions.list[i].tense = questions.list[j].tense
             /\ questions.list[i].person = questions.list[j].person)
                => i = j

\* ----------------------------------------------------------------- C12
\* positions of the filtered verbs that define every requested person in
\* every requested tense
CompleteVerbs(cfg) ==
    LET filtered == FilterVerbs(FiltersOf(cfg))
    IN  {i \in 1..Len(filtered) :
            /\ \A t \in Range(cfg.tenses) :
                   t \in DOMAIN filtered[i].conjugations
            /\ \A t \in Range(cfg.tenses), p \in Range(cfg.persons) :
                   Defines(filtered[i], t, p)}

\* C of the claim: the combinations over those verbs
CombinationCount(cfg) ==
    Cardinality(CompleteVerbs(cfg) \X Range(cfg.tenses) \X Range(cfg.persons))

\* C12: generateQuestions returns exactly min(questionCount, C) questions,
\* C the number of (verb, tense, person) combinations over the filtered
\* verbs that define every requested person in every requested tense; a
\* verb missing a requested combination contributes no question; C = 0
\* gives the empty list.
C12_ExactlyMinCountCombinations ==
    questions.done =>
        /\ Len(questions.list)
               = Min(config.questionCount, CombinationCount(config))
        /\ \A k \in 1..Len(questions.list) :
               \A t \in Range(config.tenses), p \in Range(config.persons) :
                   Defines(questions.list[k].verb, t, p)
        /\ CombinationCount(config) = 0 => questions.list = <<>>

\* A short quiz: a filtered verb lacks a requested form and is left out, the
\* complete verbs give fewer combinations than asked for, and all of them
\* are returned.
C12_Witness ==
    /\ questions.done
    /\ questions.list # <<>>
    /\ Len(questions.list) < config.questionCount
    /\ Len(questions.list) = CombinationCount(config)
    /\ Cardinality(CompleteVerbs(config))
           < Len(FilterVerbs(FiltersOf(config)))

\* ----------------------------------------------------------------- C13
\* C13: validateConfiguration returns valid = true exactly when tenses,
\* verbTypes and persons are non-empty, 1 <= questionCount <= 100 and at
\* least questionCount combinations exist; otherwise valid = false with a
\* non-empty errors list.
C13_ValidIffEnoughCombinations ==
    validation.done =>
        /\ validation.valid <=>
               /\ NonEmptySets(config)
               /\ 1 <= config.questionCount
               /\ config.questionCount <= 100
               /\ CombinationCount(config) >= config.questionCount
        /\ ~validation.valid => validation.errors # <<>>

\* ----------------------------------------------------------------- C14
\* C14: when validateConfiguration(config) returned valid = true,
\* generateQuestions(config) over the same catalog returns exactly
\* config.questionCount questions.
C14_ValidatedQuizIsFull ==
    (validation.done /\ validation.valid /\ questions.done) =>
        Len(questions.list) = config.questionCount

\* A validated quiz of two questions or more was generated in full.
C14_Witness ==
    /\ validation.done /\ validation.valid
    /\ questions.done
    /\ config.questionCount >= 2
    /\ Len(questions.list) = config.questionCount

\* ----------------------------------------------------------------- C15
\* C15: every generated question's correctAnswer is the value of its verb's
\* conjugation table at the question's (tense, person), that value is
\* defined, and the tense and person are among those the config requests.
C15_AnswerIsTableValue ==
    questions.done =>
        \A k \in 1..Len(questions.list) :
            LET q == questions.list[k]
            IN  /\ q.tense \in Range(config.tenses)
                /\ q.person \in Range(config.persons)
                /\ Defines(q.verb, q.tense, q.person)
                /\ q.correctAnswer = q.verb.conjugations[q.tense][q.person]

\* A generated quiz asks for two persons of one verb, whose forms differ.
C15_Witness ==
    /\ questions.done
    /\ \E i, j \in 1..Len(questions.list) :
           /\ questions.list[i].verb = questions.list[j].verb
           /\ questions.list[i].tense = questions.list[j].tense
           /\ questions.list[i].person = "ich"
           /\ questions.list[j].person = "du"
           /\ questions.list[i].correctAnswer
                  # questions.list[j].correctAnswer

\* ----------------------------------------------------------------- C16
\* C16: normalize is idempotent: for every text of letters, whitespace and
\* the punctuation .,!?;: normalizing the normalized text changes nothing.
C16_NormalizeIdempotent ==
    Len(passes) >= 2 => passes[2] = passes[1]

\* ----------------------------------------------------------------- C17
\* the answer scoreQuiz is handed for a question: absent reads as ""
Submitted(id) == IF id \in DOMAIN userAnswers THEN userAnswers[id] ELSE <<>>

\* C17: scoreQuiz treats a question without a submitted answer as answered
\* with the empty string and scores it incorrect, and the score is the
\* number of questions whose normalized answer equals the normalized
\* canonical answer, so 0 <= score <= totalQuestions.
C17_UnansweredIncorrectScoreCounts ==
    quizResult.done =>
        /\ \A k \in 1..Len(questions.list) :
               questions.list[k].id \notin DOMAIN userAnswers =>
                   /\ quizResult.questions[k].userAnswer = <<>>
                   /\ ~quizResult.questions[k].isCorrect
        /\ quizResult.score =
               Cardinality({k \in 1..Len(questions.list) :
                   NormalizeAnswer(Submitted(questions.list[k].id))
                       = NormalizeAnswer(questions.list[k].correctAnswer)})
        /\ 0 <= quizResult.score
        /\ quizResult.score <= quizResult.totalQuestions

\* ----------------------------------------------------------------- C18
\* C18: every attempt a quiz flow writes to the ledger has percentage equal
\* to 100 * score / total_questions rounded to two decimals.
C18_PercentageRoundedTo2Decimals ==
    \A i \in 1..Len(results) :
        results[i].total_questions > 0 =>
            LET s == results[i].score
                n == results[i].total_questions
                hundredths == (2 * 10000 * s + n) \div (2 * n)
            IN  results[i].percentage.num * 100
                    = hundredths * results[i].percentage.den

\* ----------------------------------------------------------------- C19
\* two rows of the list have the same infinitive
SharesInfinitive(verbs) ==
    \E i, j \in 1..Len(verbs) :
        i # j /\ verbs[i].infinitive = verbs[j].infinitive

\* C19: a load handed a verb list in which two verbs share an infinitive
\* fails and the list does not become the catalog; so in every ready
\* catalog infinitives are unique and the lookup map and the iteration list
\* hold the same verbs.
C19_SharedInfinitiveRejected ==
    /\ [](IsCacheReady =>
              /\ ~SharesInfinitive(verbsArray)
              /\ {verbsMap[inf] : inf \in DOMAIN verbsMap} = Range(verbsArray))
    /\ [][\A c \in inits, verbs \in VerbLists(MaxVerbs) :
              (SharesInfinitive(verbs) /\ LoadFallbackData(c, TRUE, verbs))
                  => /\ inits' = Moved(c, "rejected")
                     /\ verbsArray' # verbs]_vars

\* ----------------------------------------------------------------- C20
\* the queries the catalog is searched with
QueriesAsked == {<<>>, <<" ">>, <<"a">>, <<"B">>, <<"a", " ">>}

\* every catalog query returns nothing
QueriesAnswerEmpty ==
    /\ GetAllVerbs = <<>>
    /\ \A inf \in Infinitives : GetVerbByInfinitive(inf) = Undefined
    /\ \A criteria \in CriteriaAsked : FilterVerbs(criteria) = <<>>
    /\ \A query \in QueriesAsked : SearchVerbs(query) = <<>>
    /\ \A count \in 0..MaxVerbs,
          criteria \in CriteriaAsked \cup {NoCriteria} :
           \A js \in RandomChoices(Len(VerbsToSelectFrom(criteria))) :
               GetRandomVerbs(count, criteria, js) = <<>>

\* the load started by the latest reload has stored its list
NewLoadCompleted == writer.gen = epoch

\* C20: after clearCache() on the reload path the cache is not ready and
\* every catalog query returns nothing until the load the reload started
\* has completed, whatever earlier initializeCache() calls are still in
\* flight; once the cache is ready again the catalog is the list that load
\* fetched.
C20_ReloadNotReadyUntilNewLoad ==
    epoch > 0 =>
        /\ ~NewLoadCompleted => (~IsCacheReady /\ QueriesAnswerEmpty)
        /\ IsCacheReady =>
               /\ NewLoadCompleted
               /\ GetAllVerbs = writer.verbs
               /\ verbsMap = MapOf(writer.verbs)

\* ----------------------------------------------------------------- C21
\* the orders the elements of s can be put in
PermutationsOf(s) ==
    {[k \in 1..Len(s) |-> s[f[k]]] :
        f \in {g \in [1..Len(s) -> 1..Len(s)] :
                  \A a, b \in 1..Len(s) : g[a] = g[b] => a = b}}

\* C21: getRandomVerbs(n, criteria) returns min(n, m) pairwise distinct
\* verbs out of the m verbs matching the criteria and leaves verbsArray as
\* it was; the shuffle is uniform: of the choices of j in 0..i at each step
\* i, exactly one sequence produces each order of the matched list.
C21_RandomVerbsDistinctUniform ==
    /\ [](picked.done =>
              /\ Len(picked.verbs) = Min(picked.count, Len(picked.matched))
              /\ \A a, b \in 1..Len(picked.verbs) :
                     picked.verbs[a] = picked.verbs[b] => a = b
              /\ Range(picked.verbs) \subseteq Range(picked.matched)
              /\ \A order \in PermutationsOf(picked.matched) :
                     Cardinality(
                         {js \in RandomChoices(Len(picked.matched)) :
                             ShuffleArray(picked.matched, js) = order}) = 1)
    /\ [][picked' # picked => verbsArray' = verbsArray]_vars

\* two of three matching verbs were asked for and the shuffle moved them
C21_Witness ==
    /\ picked.done
    /\ Len(picked.matched) = 3
    /\ picked.count = 2
    /\ picked.verbs = <<picked.matched[3], picked.matched[1]>>

\* ----------------------------------------------------------------- C22
\* C22: when the store rejects the write of saveTestResult (quota exceeded)
\* the caller gets an error and the stored ledger is as it was: the new
\* attempt is not recorded and no stored attempt is lost.  A save that
\* reports no error has added exactly the new attempt.
C22_RejectedSaveRaisesLedgerKept ==
    [][/\ \A u \in Users :
              SaveResult(u, FALSE) => (out'.threw /\ results' = results)
       /\ (out'.op = "save" /\ <<out, results>>' # <<out, results>>) =>
              IF out'.threw THEN results' = results
              ELSE /\ Ids(results') = Ids(results) \cup {nextId}
                   /\ Len(results') = Len(results) + 1]_vars

\* a save was rejected while an attempt was stored, and the attempt is there
C22_Witness ==
    /\ out = [op |-> "save", threw |-> TRUE]
    /\ Len(results) = 1
    /\ nextId = 2

\* ----------------------------------------------------------------- C23
\* C23: updateTestResult and deleteTestResult with an id that is not in the
\* ledger leave the ledger as it is: no record is created, changed or
\* removed.
C23_UnknownIdLeavesLedger ==
    /\ [](\A id \in AllIds \ Ids(results), t \in 0..MaxTime :
              /\ UpdateTestResult(results, id, t) = results
              /\ DeleteTestResultIn(results, id) = results)
    /\ [][\A id \in AllIds \ Ids(results), ok \in BOOLEAN :
              DeleteResult(id, ok) => (results' = results /\ ~out'.threw)]_vars

\* the last call was a delete, and no attempt has ever left the ledger: the
\* id it was given was not stored
C23_Witness ==
    /\ out.op = "delete"
    /\ nextId = MaxAttempts + 1
    /\ nextForeign = 1
    /\ Ids(results) = LocalIds

\* ----------------------------------------------------------------- C27
\* C27: an attempt deleted from the ledger while an upload containing it is
\* in flight is not brought back when the upload completes: handling the
\* successful response does not re-create the record, reports no error, and
\* marks the other uploaded attempts that are still stored as synced.
C27_DeletedInFlightNotResurrected ==
    [][\A r \in BagToSet(uploads) :
          (/\ r.stage = "ok"
           /\ HandlesUpload(r)
           /\ \E k \in 1..Len(r.rows) : ~IsStored(results, r.rows[k].id)) =>
              /\ \A k \in 1..Len(r.rows) :
                     IF IsStored(results, r.rows[k].id)
                     THEN /\ IsStored(results', r.rows[k].id)
                          /\ Stored(results', r.rows[k].id).synced
                     ELSE ~IsStored(results', r.rows[k].id)
              /\ out'.success]_vars

\* ----------------------------------------------------------------- C28
\* C28: an attempt appended to the ledger after uploadHistory took its list
\* of unsynced attempts and before the response arrived is still unsynced
\* when that upload has completed, and the next uploadHistory sends it:
\* a response marks no attempt outside its request, and a new request
\* carries every stored unsynced attempt.
C28_AppendedInFlightStaysUnsynced ==
    [][/\ \A r \in BagToSet(uploads) : HandlesUpload(r) =>
              \A i \in 1..Len(results) :
                  (~results[i].synced /\ results[i].id \notin Ids(r.rows)) =>
                      /\ IsStored(results', results[i].id)
                      /\ ~Stored(results', results[i].id).synced
       /\ \A r \in BagToSet(uploads') :
              (r.stage = "sent" /\ CopiesIn(r, uploads') > CopiesIn(r, uploads))
                  => \A i \in 1..Len(results) :
                         ~results[i].synced => results[i].id \in Ids(r.rows)]_vars

\* The only upload issued so far carried one attempt and has succeeded; the
\* attempt saved while it was in flight is stored unsynced next to the
\* synced one.
C28_Witness ==
    /\ out = SuccessOf(1)
    /\ nextReq = 2
    /\ Len(results) = 2
    /\ \E i, j \in 1..2 : results[i].synced /\ ~results[j].synced

C25_VocabularyScoreCountsCorrect ==
    /\ quizState.mode = "vocabulary" =>
           quizState.score <= Len(quizState.questions)
    /\ \A i \in 1..Len(results) :
           results[i].test_type = "vocabulary" =>
               results[i].score =
                   Cardinality({k \in 1..Len(results[i].answers) :
                                   results[i].answers[k].isCorrect})

\* ----------------------------------------------------------------- C29
\* C29: a completed quiz session appends exactly one attempt to the ledger,
\* however often submit, or next on the last question, is triggered before
\* the quiz page is left.
C29_OneAttemptPerSession ==
    /\ Len(results) <= 1
    /\ (quizResult.done /\ out = [op |-> "save", threw |-> FALSE]) =>
           Len(results) = 1
    /\ (quizState.mode = "vocabulary" /\ quizState.navigating) =>
           Len(results) = 1

\* ----------------------------------------------------------------- C30
\* C30: in vocabulary mode an answer that is empty once trimmed (white space
\* only) is never accepted as correct by submitAnswer and never raises the
\* score.
C30_BlankAnswerNeverCorrect ==
    [][\A value \in FormValues :
          (value # Null /\ Trim(value) = <<>> /\ SubmitAnswer(value)) =>
              /\ quizState'.score = quizState.score
              /\ ~quizState'.questions[quizState.currentIndex + 1].isCorrect]_vars

\* ----------------------------------------------------------------- C26
\* C26: dataLoadedGuard waits for the cache.  It never allows the
\* navigation while the cache is not ready; it denies only when the cache
\* has not become ready before the 30-second timeout; and when the cache is
\* ready at some time within 30 seconds of the guard's start, the guard
\* eventually allows the navigation.
C26_GuardWaitsForCache ==
    /\ [][(guard'.state = "allowed" /\ guard.state # "allowed")
              => IsCacheReady]_vars
    /\ [][(guard'.state = "denied" /\ guard.state # "denied")
              => (guard'.elapsed >= TimeoutHalfSeconds /\ ~IsCacheReady)]_vars
    /\ [](( /\ guard.state \in {"waiting", "denied"}
            /\ guard.elapsed <= TimeoutHalfSeconds
            /\ IsCacheReady) => <>(guard.state = "allowed"))

====
